---------------------------- MODULE Spec2Model ----------------------------
(***************************************************************************)
(* Model of google-drive-mcp/google_drive_mcp.py: the OAuth2 credential    *)
(* lifecycle of get_drive_service and the three FastMCP tools that call it *)
(* (list_drive_files, upload_to_drive, create_drive_folder).               *)
(*                                                                         *)
(* The program is single-threaded and synchronous, so one tool invocation  *)
(* is one action.  What the outside world decides during an invocation     *)
(* (does the refresh exchange succeed, does the user finish the consent    *)
(* flow, does the Drive API call succeed) is an input of the action.       *)
(*                                                                         *)
(* Python's Optional values are sequences of length 0 (None) or 1.         *)
(* Assumptions on the environment: writing the token file and build()      *)
(* (cache_discovery=False, static discovery document) do not fail; paths   *)
(* handed to upload_to_drive have no "." or ".." components.               *)
(***************************************************************************)
EXTENDS Integers, Sequences, FiniteSets, TLC

----------------------------------------------------------------------------
(* Bounds of the model *)

\* the clock runs from 0 to MaxTime
MaxTime == 1
\* refresh and authorization hand out the access tokens 1..MaxToken
MaxToken == 2
\* a fresh access token is good for TokenLifetime ticks
TokenLifetime == 1
\* a list response carries 0..MaxFiles files
MaxFiles == 1

\* list_drive_files: "if page_size > 100: page_size = 100"
MaxPageSize == 100

PageSizes == {-1, 0, MaxPageSize, MaxPageSize + 1, MaxPageSize + 50}

----------------------------------------------------------------------------
(* The local file system seen by upload_to_drive *)

\* a path is the sequence of its components; an absolute one starts at "/"
Cwd == <<"/", "work">>
\* the paths that exist: two regular files and a directory
ExistingPaths == { <<"/", "work", "a.txt">>, <<"/", "data", "b.bin">>, <<"/", "data">> }
Directories == { <<"/", "data">> }
FilePaths == { <<"a.txt">>, <<"missing.txt">>, <<"/", "data", "b.bin">>,
               <<"/", "data", "gone.bin">>, <<"/", "data">> }
FolderIds == {"", "F1"}
FolderNames == {"reports"}

\* os.path.isabs
isabs(p) == p # <<>> /\ p[1] = "/"

\* os.path.abspath of a relative path: joined to the working directory
abspath(p) == IF isabs(p) THEN p ELSE Cwd \o p

\* os.path.exists
exists(p) == p \in ExistingPaths

\* os.path.basename
basename(p) == p[Len(p)]

----------------------------------------------------------------------------
(* Credentials and the token file *)

\* google.oauth2.credentials.Credentials: token and expiry are Optional
Credential(tok, rt, exp) == [token |-> tok, refresh_token |-> rt, expiry |-> exp]

\* creds.expired: there is an expiry and it has passed
expired(c, t) == c.expiry # <<>> /\ t >= c.expiry[1]

\* creds.valid: there is an access token and it has not expired
valid_IgnoreExpiry(c, t) == c.token # <<>>

valid(c, t) == c.token # <<>> /\ ~expired(c, t)

\* the content of the token file: a pickle that loads, or bytes that do not
CorruptBlob == [ok |-> FALSE, creds |-> Credential(<<>>, FALSE, <<>>)]

\* pickle.dump(creds, token)
pickle_dump(c) == [ok |-> TRUE, creds |-> c]

\* pickle.load(token): the pickled object, or an exception
pickle_load_CorruptAsAbsent(blob) ==
    IF blob.ok THEN [raised |-> FALSE, creds |-> <<blob.creds>>]
               ELSE [raised |-> FALSE, creds |-> <<>>]

pickle_load(blob) ==
    IF blob.ok THEN [raised |-> FALSE, creds |-> <<blob.creds>>]
               ELSE [raised |-> TRUE, creds |-> <<>>]

\* the credentials a token file may hold when the server starts
\* (access token 0 was issued before the server started; one file holds
\* credentials without an access token)
StoredCredentials ==
    { Credential(<<0>>, rt, exp) : rt \in BOOLEAN, exp \in {<<>>, <<0>>, <<1>>} }
    \cup { Credential(<<>>, TRUE, <<>>), Credential(<<>>, TRUE, <<0>>) }

TokenFiles == {<<>>, <<CorruptBlob>>} \cup { <<pickle_dump(c)>> : c \in StoredCredentials }

----------------------------------------------------------------------------
(* get_drive_service *)

\* line 49: "if not creds or not creds.valid"
needs_credentials_Always(creds, t) == TRUE

needs_credentials(creds, t) == creds = <<>> \/ ~valid(creds[1], t)

\* line 50: "if creds and creds.expired and creds.refresh_token"
can_refresh_IgnoreToken(creds, t) == creds # <<>> /\ expired(creds[1], t)

can_refresh(creds, t) ==
    creds # <<>> /\ expired(creds[1], t) /\ creds[1].refresh_token

\* line 51, creds.refresh(Request()): one token exchange over the network; it
\* sets the access token and the expiry of creds in place, or raises
refresh(c, t, tok, refreshOK) ==
    IF refreshOK
    THEN [raised |-> FALSE, error |-> "",
          creds |-> <<[c EXCEPT !.token = <<tok>>, !.expiry = <<t + TokenLifetime>>]>>]
    ELSE [raised |-> TRUE, error |-> "RefreshError", creds |-> <<c>>]

\* lines 53-56: InstalledAppFlow.from_client_secrets_file raises when
\* credentials.json is missing; run_local_server blocks until the user has
\* consented in the browser, or raises when the flow cannot complete; the flow
\* asks for offline access, so the fresh credentials carry a refresh token
run_flow(cfg, t, tok, authOK) ==
    IF ~cfg THEN [raised |-> TRUE, error |-> "FileNotFoundError", creds |-> <<>>]
    ELSE IF ~authOK THEN [raised |-> TRUE, error |-> "AuthorizationError", creds |-> <<>>]
    ELSE [raised |-> FALSE, error |-> "",
          creds |-> <<Credential(<<tok>>, TRUE, <<t + TokenLifetime>>)>>]

\* lines 50-56: refresh the loaded credentials, or else run the consent flow
acquire_FallbackOnRefreshFailure(creds, cfg, t, tok, env) ==
    LET f == run_flow(cfg, t, tok, env.authOK) IN
    IF can_refresh(creds, t)
    THEN LET r == refresh(creds[1], t, tok, env.refreshOK) IN
         IF r.raised
         THEN [raised |-> f.raised, error |-> f.error, creds |-> f.creds,
               log |-> <<"refresh", "authorize">>]
         ELSE [raised |-> FALSE, error |-> "", creds |-> r.creds, log |-> <<"refresh">>]
    ELSE [raised |-> f.raised, error |-> f.error, creds |-> f.creds,
          log |-> <<"authorize">>]

acquire(creds, cfg, t, tok, env) ==
    IF can_refresh(creds, t)
    THEN LET r == refresh(creds[1], t, tok, env.refreshOK) IN
         [raised |-> r.raised, error |-> r.error, creds |-> r.creds,
          log |-> <<"refresh">>]
    ELSE LET f == run_flow(cfg, t, tok, env.authOK) IN
         [raised |-> f.raised, error |-> f.error, creds |-> f.creds,
          log |-> <<"authorize">>]

\* lines 59-60: "with open(token_path, 'wb') as token: pickle.dump(creds, token)"
save_token_Skip(file, c) == file

save_token(file, c) == <<pickle_dump(c)>>

\* lines 38-63.  file is the token file (<<>> when there is none), cfg says
\* whether credentials.json exists, t is the time, tok the access token the
\* authorization server would issue next, env the outcomes the outside world
\* decides.  The result: did the call raise, with what, the credentials the
\* client was built from, the token file afterwards, and the calls made.
get_drive_service(file, cfg, t, tok, env) ==
    LET loaded == IF file = <<>> THEN [raised |-> FALSE, creds |-> <<>>]
                                 ELSE pickle_load(file[1])
    IN
    IF loaded.raised
    THEN [raised |-> TRUE, error |-> "UnpicklingError", creds |-> <<>>,
          file |-> file, log |-> <<>>]
    ELSE IF needs_credentials(loaded.creds, t)
    THEN LET a == acquire(loaded.creds, cfg, t, tok, env) IN
         IF a.raised
         THEN [raised |-> TRUE, error |-> a.error, creds |-> <<>>,
               file |-> file, log |-> a.log]
         ELSE [raised |-> FALSE, error |-> "", creds |-> a.creds,
               file |-> save_token(file, a.creds[1]),
               log |-> a.log \o <<"write", "build">>]
    ELSE [raised |-> FALSE, error |-> "", creds |-> loaded.creds,
          file |-> file, log |-> <<"build">>]

\* the result recorded for an invocation that never called get_drive_service
NotCalled(file) ==
    [raised |-> FALSE, error |-> "", creds |-> <<>>, file |-> file, log |-> <<>>]

----------------------------------------------------------------------------
(* The tool handlers *)

\* what an invocation hands to the host: a returned string ("text") or an
\* exception leaving the handler ("raise").  A string is its fixed part, the
\* path or the str(e) formatted into it, and the number of files listed.
Text(prefix, path, error, count) ==
    [kind |-> "text", prefix |-> prefix, path |-> path, error |-> error, count |-> count]

Raise(error) ==
    [kind |-> "raise", prefix |-> "", path |-> <<>>, error |-> error, count |-> 0]

\* the request a handler sends through the client: files().list(...).execute()
\* or files().create(...).execute(), by the credentials the client was built from
Request(op, pageSize, name, mimeType, parents, media, creds) ==
    [op |-> op, pageSize |-> pageSize, name |-> name, mimeType |-> mimeType,
     parents |-> parents, media |-> media, creds |-> creds]

\* what the body of a handler's try block did: raised or returned
Body(raised, error, result, called, gds, requests) ==
    [raised |-> raised, error |-> error, result |-> result, called |-> called,
     gds |-> gds, requests |-> requests]

\* lines 105, 142, 174: the fixed part of each handler's error string
ErrorPrefix_AllListing(tool) == "Error listing files"

ErrorPrefix(tool) ==
    CASE tool = "list_drive_files" -> "Error listing files"
      [] tool = "upload_to_drive" -> "Error uploading file"
      [] tool = "create_drive_folder" -> "Error creating folder"

\* lines 81/104-105, 120/141-142, 157/173-174: "try: ... except Exception as e:
\* return f'Error ...: {str(e)}'" around the whole body of the handler
guarded_Propagate(tool, body) ==
    IF body.raised THEN Raise(body.error) ELSE body.result

guarded(tool, body) ==
    IF body.raised THEN Text(ErrorPrefix(tool), <<>>, body.error, 0) ELSE body.result

\* lines 82-83: page_size is capped at 100 and has no lower limit
clamp_page_size_LowerLimit(page_size) ==
    IF page_size > MaxPageSize THEN MaxPageSize
    ELSE IF page_size < 1 THEN 1 ELSE page_size

clamp_page_size(page_size) ==
    IF page_size > MaxPageSize THEN MaxPageSize ELSE page_size

\* lines 82-103, the body of list_drive_files
list_body(page_size, file, cfg, t, tok, env) ==
    LET ps == clamp_page_size(page_size)
        g == get_drive_service(file, cfg, t, tok, env)
        req == Request("list", ps, "", "", <<>>, <<>>, g.creds)
    IN
    IF g.raised THEN Body(TRUE, g.error, Raise(g.error), TRUE, g, <<>>)
    ELSE IF ~env.apiOK THEN Body(TRUE, "HttpError", Raise("HttpError"), TRUE, g, <<req>>)
    ELSE Body(FALSE, "",
              IF env.nFiles = 0
              THEN Text("No files found in Google Drive.", <<>>, "", 0)
              ELSE Text("Found files", <<>>, "", env.nFiles),
              TRUE, g, <<req>>)

\* lines 121-140, the body of upload_to_drive
upload_body_ServiceFirst(file_path, folder_id, file, cfg, t, tok, env) ==
    LET path == IF ~isabs(file_path) THEN abspath(file_path) ELSE file_path
        g == get_drive_service(file, cfg, t, tok, env)
        req == Request("create", 0, basename(path), "",
                       IF folder_id # "" THEN <<folder_id>> ELSE <<>>, path, g.creds)
    IN
    IF g.raised THEN Body(TRUE, g.error, Raise(g.error), TRUE, g, <<>>)
    ELSE IF ~exists(path)
    THEN Body(FALSE, "", Text("File not found", path, "", 0), TRUE, g, <<>>)
    ELSE IF path \in Directories
    THEN Body(TRUE, "IsADirectoryError", Raise("IsADirectoryError"), TRUE, g, <<>>)
    ELSE IF ~env.apiOK THEN Body(TRUE, "HttpError", Raise("HttpError"), TRUE, g, <<req>>)
    ELSE Body(FALSE, "", Text("File uploaded!", <<>>, "", 0), TRUE, g, <<req>>)

upload_body(file_path, folder_id, file, cfg, t, tok, env) ==
    LET path == IF ~isabs(file_path) THEN abspath(file_path) ELSE file_path
        g == get_drive_service(file, cfg, t, tok, env)
        req == Request("create", 0, basename(path), "",
                       IF folder_id # "" THEN <<folder_id>> ELSE <<>>, path, g.creds)
    IN
    IF ~exists(path)
    THEN Body(FALSE, "", Text("File not found", path, "", 0), FALSE, NotCalled(file), <<>>)
    ELSE IF g.raised THEN Body(TRUE, g.error, Raise(g.error), TRUE, g, <<>>)
    \* MediaFileUpload opens the file
    ELSE IF path \in Directories
    THEN Body(TRUE, "IsADirectoryError", Raise("IsADirectoryError"), TRUE, g, <<>>)
    ELSE IF ~env.apiOK THEN Body(TRUE, "HttpError", Raise("HttpError"), TRUE, g, <<req>>)
    ELSE Body(FALSE, "", Text("File uploaded!", <<>>, "", 0), TRUE, g, <<req>>)

\* lines 158-172, the body of create_drive_folder
create_body(folder_name, parent_id, file, cfg, t, tok, env) ==
    LET g == get_drive_service(file, cfg, t, tok, env)
        req == Request("create", 0, folder_name, "application/vnd.google-apps.folder",
                       IF parent_id # "" THEN <<parent_id>> ELSE <<>>, <<>>, g.creds)
    IN
    IF g.raised THEN Body(TRUE, g.error, Raise(g.error), TRUE, g, <<>>)
    ELSE IF ~env.apiOK THEN Body(TRUE, "HttpError", Raise("HttpError"), TRUE, g, <<req>>)
    ELSE Body(FALSE, "", Text("Folder created!", <<>>, "", 0), TRUE, g, <<req>>)

----------------------------------------------------------------------------
(* The state machine: the host invokes the tools one after another *)

VARIABLES
    token_file,        \* <<>> or <<blob>>: the file at token_path
    credentials_json,  \* does credentials.json exist next to the script
    now,               \* the clock
    next_token,        \* the access token the authorization server issues next
    last               \* the most recent invocation: inputs, calls made, result

vars == <<token_file, credentials_json, now, next_token, last>>

\* the outcomes the outside world decides during one invocation
\* (a call consults at most one of refreshOK and authOK, and nFiles only when
\* the list request succeeds: the outcomes nobody consults are left out)
Envs(counts) ==
    { e \in [refreshOK : BOOLEAN, authOK : BOOLEAN, apiOK : BOOLEAN, nFiles : counts] :
        /\ e.refreshOK \/ e.authOK
        /\ ~e.apiOK => e.nFiles = 0 }

Invocation(tool, page_size, file_path, folder, name, env, body) ==
    [tool |-> tool, page_size |-> page_size, file_path |-> file_path,
     folder |-> folder, name |-> name, pre |-> token_file, cfg |-> credentials_json,
     t |-> now, tok |-> next_token, env |-> env, called |-> body.called,
     gds |-> body.gds, error |-> body.error, requests |-> body.requests,
     result |-> guarded(tool, body)]

NoEnv == [refreshOK |-> TRUE, authOK |-> TRUE, apiOK |-> TRUE, nFiles |-> 0]

Init ==
    /\ token_file \in TokenFiles
    /\ credentials_json \in BOOLEAN
    /\ now = 0
    /\ next_token = 1
    /\ last = Invocation("none", 0, <<>>, "", "", NoEnv,
                         Body(FALSE, "", Text("", <<>>, "", 0), FALSE,
                              NotCalled(token_file), <<>>))

\* the effect of an invocation on the token file and on the token counter
Completes(inv) ==
    /\ token_file' = inv.gds.file
    /\ next_token' = IF inv.gds.creds # <<>> /\ inv.gds.creds[1].token = <<next_token>>
                     THEN next_token + 1 ELSE next_token
    /\ last' = inv
    /\ UNCHANGED <<credentials_json, now>>

list_drive_files ==
    /\ next_token <= MaxToken
    /\ \E page_size \in PageSizes, env \in Envs(0..MaxFiles) :
         Completes(Invocation("list_drive_files", page_size, <<>>, "", "", env,
            list_body(page_size, token_file, credentials_json, now, next_token, env)))

upload_to_drive ==
    /\ next_token <= MaxToken
    /\ \E file_path \in FilePaths, folder_id \in FolderIds, env \in Envs({0}) :
         Completes(Invocation("upload_to_drive", 0, file_path, folder_id, "", env,
            upload_body(file_path, folder_id, token_file, credentials_json, now,
                        next_token, env)))

create_drive_folder ==
    /\ next_token <= MaxToken
    /\ \E folder_name \in FolderNames, parent_id \in FolderIds, env \in Envs({0}) :
         Completes(Invocation("create_drive_folder", 0, <<>>, parent_id, folder_name, env,
            create_body(folder_name, parent_id, token_file, credentials_json, now,
                        next_token, env)))

\* time passes between invocations
Tick ==
    /\ now < MaxTime
    /\ now' = now + 1
    /\ UNCHANGED <<token_file, credentials_json, next_token, last>>

Next == list_drive_files \/ upload_to_drive \/ create_drive_folder \/ Tick

Spec == Init /\ [][Next]_vars

----------------------------------------------------------------------------
(* Vocabulary of the properties.  They read the record of the most recent  *)
(* invocation and the token file as it is now; Tick changes neither.       *)

Count(log, e) == Cardinality({ i \in 1..Len(log) : log[i] = e })

\* the credentials the invocation found in the token file
HasStored == last.pre # <<>> /\ last.pre[1].ok
Stored == last.pre[1].creds

\* expiry and validity of credentials c at the time of the invocation
ExpiredThen(c) == c.expiry # <<>> /\ last.t >= c.expiry[1]
ValidThen(c) == c.token # <<>> /\ ~ExpiredThen(c)

\* the string a handler returns for an exception named e
ErrorText(e) ==
    [kind |-> "text",
     prefix |-> IF last.tool = "list_drive_files" THEN "Error listing files"
                ELSE IF last.tool = "upload_to_drive" THEN "Error uploading file"
                ELSE "Error creating folder",
     path |-> <<>>, error |-> e, count |-> 0]

\* the credentials get_drive_service returned were issued in this invocation,
\* are in the token file now, and are the ones every request was sent with
FreshPersistedReturned ==
    /\ ~last.gds.raised
    /\ last.gds.creds # <<>>
    /\ last.gds.creds[1].token = <<last.tok>>
    /\ token_file = <<[ok |-> TRUE, creds |-> last.gds.creds[1]]>>
    /\ \A i \in 1..Len(last.requests) : last.requests[i].creds = last.gds.creds

----------------------------------------------------------------------------
(* C1 *)

\* the stored credentials were expired with a refresh token, and the refresh failed
C1_RefreshFailed ==
    /\ last.called /\ HasStored
    /\ ExpiredThen(Stored) /\ Stored.refresh_token
    /\ ~last.env.refreshOK

\* C1 as stated: after a failed refresh, get_drive_service runs interactive
\* authorization, persists and returns the fresh credentials when it completes,
\* and the refresh failure is not reported to the caller.
C1_Original ==
    C1_RefreshFailed =>
        /\ Count(last.gds.log, "authorize") = 1
        /\ (last.cfg /\ last.env.authOK) => FreshPersistedReturned
        /\ last.error # "RefreshError"

\* C1 as amended: after a failed refresh, get_drive_service raises the refresh
\* error without running interactive authorization and without writing the token
\* file; the handler sends no request and returns the error as its error string.
C1_RefreshFailureIsReported ==
    C1_RefreshFailed =>
        /\ last.gds.raised /\ last.gds.error = "RefreshError"
        /\ last.gds.log = <<"refresh">>
        /\ token_file = last.pre
        /\ last.requests = <<>>
        /\ last.result = ErrorText("RefreshError")

C1_Witness ==
    /\ C1_RefreshFailed
    /\ last.cfg
    /\ last.result.kind = "text" /\ last.result.error = "RefreshError"

----------------------------------------------------------------------------
(* C2 *)

\* the token file exists and does not deserialize
C2_CorruptFile == last.called /\ last.pre # <<>> /\ ~last.pre[1].ok

\* C2 as stated: a token file that does not deserialize behaves like a missing
\* one: get_drive_service does not raise because of it and runs interactive
\* authorization, persisting and returning the fresh credentials.
C2_Original ==
    C2_CorruptFile =>
        /\ last.gds.error # "UnpicklingError"
        /\ Count(last.gds.log, "authorize") = 1
        /\ (last.cfg /\ last.env.authOK) => FreshPersistedReturned

\* C2 as amended: a token file that does not deserialize makes get_drive_service
\* raise the deserialization error before any refresh, authorization or write:
\* the file stays as it was, no request is sent, and the handler returns the
\* error as its error string.
C2_CorruptFileRaises ==
    C2_CorruptFile =>
        /\ last.gds.raised /\ last.gds.error = "UnpicklingError"
        /\ last.gds.log = <<>>
        /\ token_file = last.pre
        /\ last.requests = <<>>
        /\ last.result = ErrorText("UnpicklingError")

C2_Witness ==
    /\ C2_CorruptFile
    /\ last.cfg /\ last.env.authOK
    /\ last.result.kind = "text" /\ last.result.error = "UnpicklingError"

----------------------------------------------------------------------------
(* C3 *)

\* interactive authorization was needed and credentials.json is missing
C3_ConfigMissing ==
    /\ last.called /\ ~last.cfg
    /\ Count(last.gds.log, "authorize") >= 1

\* C3 as stated: when interactive authorization is needed and credentials.json
\* is missing, the invocation ends with an exception raised to the host, not
\* with a returned string.
C3_Original == C3_ConfigMissing => last.result.kind = "raise"

\* C3 as amended: when interactive authorization is needed and credentials.json
\* is missing, the invocation of each of the three tools returns the tool's
\* error string carrying the missing-file error; nothing is raised to the host,
\* no request is sent and the token file is not written.
C3_ConfigMissingIsText ==
    C3_ConfigMissing =>
        /\ last.result = ErrorText("FileNotFoundError")
        /\ last.requests = <<>>
        /\ token_file = last.pre

C3_Witness ==
    /\ C3_ConfigMissing
    /\ last.tool = "upload_to_drive"
    /\ last.result.kind = "text" /\ last.result.prefix = "Error uploading file"

----------------------------------------------------------------------------
(* C4 *)

\* the stored credentials were valid and unexpired
C4_StoredValid == last.called /\ HasStored /\ ValidThen(Stored)

\* C4: with valid, unexpired stored credentials get_drive_service makes no
\* refresh call, runs no interactive authorization and does not write the token
\* file; it returns a client built from the loaded credentials.
C4_ValidCredentialsNoSideEffects ==
    C4_StoredValid =>
        /\ ~last.gds.raised
        /\ last.gds.log = <<"build">>
        /\ last.gds.creds = <<Stored>>
        /\ token_file = last.pre
        /\ \A i \in 1..Len(last.requests) : last.requests[i].creds = <<Stored>>

C4_Witness ==
    /\ C4_StoredValid
    /\ Stored.expiry # <<>>
    /\ Len(last.requests) = 1

----------------------------------------------------------------------------
(* C5 *)

\* the stored credentials were expired and had a refresh token
C5_Refreshable ==
    /\ last.called /\ HasStored
    /\ ExpiredThen(Stored) /\ Stored.refresh_token

\* C5: with expired stored credentials that have a refresh token, one call of
\* get_drive_service makes exactly one refresh call; when the refresh succeeds
\* there is no interactive authorization, and the refreshed credentials (the
\* loaded ones with a new access token and expiry) are written to the token
\* file and are the ones the client is built from.
C5_RefreshOnceAndPersist ==
    C5_Refreshable =>
        /\ Count(last.gds.log, "refresh") = 1
        /\ last.env.refreshOK =>
             /\ Count(last.gds.log, "authorize") = 0
             /\ Count(last.gds.log, "write") = 1
             /\ FreshPersistedReturned
             /\ last.gds.creds[1].refresh_token = Stored.refresh_token
             /\ ValidThen(last.gds.creds[1])

C5_Witness ==
    /\ C5_Refreshable
    /\ last.env.refreshOK
    /\ token_file # last.pre
    /\ Len(last.requests) = 1

----------------------------------------------------------------------------
(* C6 *)

\* nothing was stored, or the stored credentials were expired without a
\* refresh token
C6_MustAuthorize ==
    /\ last.called
    /\ \/ last.pre = <<>>
       \/ HasStored /\ ExpiredThen(Stored) /\ ~Stored.refresh_token

----------------------------------------------------------------------------
(* C7 *)

\* C7: whatever the token file held, a call of get_drive_service either raises
\* (and then no client exists and no request is sent) or returns a client built
\* from credentials that are valid at that time; every request is sent with
\* those credentials.
C7_ReturnsValidOrRaises ==
    last.called =>
        \/ /\ last.gds.raised
           /\ last.gds.error # ""
           /\ last.requests = <<>>
        \/ /\ ~last.gds.raised
           /\ last.gds.creds # <<>>
           /\ ValidThen(last.gds.creds[1])
           /\ \A i \in 1..Len(last.requests) : last.requests[i].creds = last.gds.creds

C7_Witness ==
    /\ last.called /\ ~last.gds.raised
    /\ HasStored /\ Stored.token # <<>> /\ ExpiredThen(Stored)
    /\ ValidThen(last.gds.creds[1])

----------------------------------------------------------------------------
(* C8 *)

\* C8: every invocation of the three tools ends with a returned string; when
\* the body of the handler raised (the API call failing, for one), the string
\* is the tool's error string carrying that error.
C8_ErrorsBecomeText ==
    last.tool # "none" =>
        /\ last.result.kind = "text"
        /\ last.error # "" => last.result = ErrorText(last.error)
        /\ (last.requests # <<>> /\ ~last.env.apiOK) =>
               last.result = ErrorText("HttpError")

C8_Witness ==
    /\ last.tool = "create_drive_folder"
    /\ last.requests # <<>> /\ ~last.env.apiOK
    /\ last.result.prefix = "Error creating folder"

----------------------------------------------------------------------------
(* C9 *)

\* the absolute path upload_to_drive was asked to upload
C9_Resolved ==
    IF last.file_path[1] = "/" THEN last.file_path ELSE <<"/", "work">> \o last.file_path

\* that path does not exist
C9_PathMissing ==
    /\ last.tool = "upload_to_drive"
    /\ C9_Resolved \notin ExistingPaths

\* C9: an upload of a path that does not exist returns a string carrying the
\* resolved absolute path; get_drive_service is not called, no request is sent
\* and the token file is left alone.
C9_MissingPathFailsFast ==
    C9_PathMissing =>
        /\ last.result =
             [kind |-> "text", prefix |-> "File not found", path |-> C9_Resolved,
              error |-> "", count |-> 0]
        /\ last.result.path[1] = "/"
        /\ ~last.called
        /\ last.gds.log = <<>>
        /\ last.requests = <<>>
        /\ token_file = last.pre

C9_Witness ==
    /\ C9_PathMissing
    /\ last.file_path = <<"missing.txt">>
    /\ last.result.path = <<"/", "work", "missing.txt">>
    /\ last.pre = <<>>

----------------------------------------------------------------------------
(* C10 *)

\* the page size list_drive_files is to send for the page_size it was given
C10_Expected == IF last.page_size > 100 THEN 100 ELSE last.page_size

\* C10 as stated: every invocation of list_drive_files sends exactly one list
\* request, with page size 100 when page_size > 100 and page_size unchanged
\* otherwise.
C10_Original ==
    last.tool = "list_drive_files" =>
        /\ Len(last.requests) = 1
        /\ last.requests[1].pageSize = C10_Expected

\* C10 as amended: an invocation of list_drive_files sends at most one list
\* request: exactly one when get_drive_service returns a client, none when it
\* raises; the request carries page size 100 when page_size > 100 and page_size
\* unchanged otherwise.
C10_PageSizeClamped ==
    last.tool = "list_drive_files" =>
        /\ Len(last.requests) = IF last.gds.raised THEN 0 ELSE 1
        /\ \A i \in 1..Len(last.requests) :
             /\ last.requests[i].op = "list"
             /\ last.requests[i].pageSize = C10_Expected

C10_Witness ==
    /\ last.tool = "list_drive_files"
    /\ last.page_size > 100
    /\ Len(last.requests) = 1
    /\ last.requests[1].pageSize = 100

C10_WitnessNotPositive ==
    /\ last.tool = "list_drive_files"
    /\ last.page_size < 0
    /\ Len(last.requests) = 1
    /\ last.requests[1].pageSize = last.page_size

=============================================================================
